---- MODULE Spec2Model ----
(***************************************************************************)
(* Model of the WhatsApp <-> Ultravox voice bridge of src/server.js (the   *)
(* variant of lines 1-289): the webhook handler, setupBridge,              *)
(* connectToUltravox, the pre_accept/accept handshake, the AI->telephony   *)
(* framer and cleanup.                                                     *)
(*                                                                         *)
(* The program is single threaded and event driven.  One action of the     *)
(* model is one event-loop callback together with the promise              *)
(* continuations (microtasks) it triggers, run up to the next await.       *)
(*                                                                         *)
(* The h-th connect event starts webhook handler h; every object a setup   *)
(* creates (peer connection, AI socket, audio source, audio sink) carries  *)
(* the number of the handler that created it.  The module-level `let`      *)
(* variables of the source hold 0 for null and an object number otherwise. *)
(* The call id of the h-th connect event is h.                             *)
(***************************************************************************)
EXTENDS Integers, Sequences, FiniteSets, TLC

\* ---------------------------------------------------------------- bounds
MaxConnects == 2        \* connect events per behaviour
MaxTerminates == 2      \* terminate events per behaviour
MaxMsgs == 2            \* binary AI-socket messages per behaviour
MaxData == 2            \* telephony audio callbacks per behaviour
MaxInputs == 3          \* connect events, terminate events, messages and callbacks together
MaxFeeds == 3           \* messages fed to an established bridge

\* ------------------------------------------------------ program constants
FRAME_SIZE == 960       \* bytes per telephony frame
BytesPerSample == 2     \* Int16
UpRatio == 6            \* 8 kHz -> 48 kHz
ACCEPT_DELAY == 1000    \* ms between pre_accept success and accept
DownRatio == 6          \* 48 kHz -> 8 kHz
FullScale == 32767      \* factor applied to a telephony sample
Int16Min == -32768
Int16Max == 32767

FrameSamples == FRAME_SIZE \div BytesPerSample

Handlers == 1..MaxConnects
CallIds == 1..MaxConnects

\* data.length (in bytes) of the binary messages the AI socket may deliver
PayloadLens == {0, 60, 61, 160}

\* answer.sdp of the answer to the offer of call h, as the values of its
\* a=setup: lines, one per media section of the offer: the offer of call h has h
\* media sections
AnswerSdp(h) == [i \in 1..h |-> "actpass"]

\* a binary message: its length, and whether data.byteOffset is a multiple of 2
Packets == [bytes : PayloadLens, aligned : BOOLEAN]

VARIABLES
    apiKey,         \* ULTRAVOX_API_KEY is set
    whatsappPc,     \* let whatsappPc
    currentCallId,  \* let currentCallId
    ultravoxWs,     \* let ultravoxWs
    audioSource,    \* let audioSource
    audioSink,      \* let audioSink
    audioBuffer,    \* let audioBuffer, as a sequence of Int16 samples
    pcs,            \* the RTCPeerConnection objects
    wss,            \* the WebSocket objects
    sinks,          \* the RTCAudioSink objects
    sources,        \* the RTCAudioSource objects: frames handed to onData
    calls,          \* the webhook handler invocations (one per connect event)
    nConnects, nTerminates, nMsgs,
    released,       \* history: what the latest cleanup() found and released
    hist,           \* history of the AI->telephony path: the latest message and its
                    \* conversion, and the samples appended since the buffer was reset
    sent,           \* the chunks given to send() of each WebSocket object
    tele            \* history of the telephony->AI path: the latest ondata call

vars == <<apiKey, whatsappPc, currentCallId, ultravoxWs, audioSource, audioSink,
          audioBuffer, pcs, wss, sinks, sources, calls, nConnects, nTerminates, nMsgs, released, hist,
          sent, tele>>

\* ------------------------------------------------------------ initial state
NoPc == [state |-> "none", closeCalls |-> 0, ontrack |-> FALSE, remote |-> 0]
NoWs == [readyState |-> "none", closeCalls |-> 0, opened |-> FALSE]
NoSink == [state |-> "none", stopCalls |-> 0]
NoCall == [pc |-> "idle", provReq |-> FALSE, promise |-> "none",
           offered |-> FALSE, fail |-> "none",
           preId |-> 0, preCount |-> 0, preRes |-> "none",
           acceptTimer |-> "none", acceptDelay |-> 0,
           acceptId |-> 0, acceptRes |-> "none",
           rejectId |-> 0, terminated |-> FALSE,
           answer |-> <<>>, finalSdp |-> <<>>, preSdp |-> <<>>, acceptSdp |-> <<>>]

NoRelease == [ws |-> 0, pc |-> 0, sink |-> 0, source |-> 0, samples |-> 0, active |-> FALSE]
NoTele == [calls |-> 0, samples |-> <<>>, to |-> 0, out |-> <<>>]
NoHist == [ws |-> 0, data |-> [bytes |-> 0, aligned |-> TRUE], text |-> "none", thrown |-> FALSE,
           int16In |-> <<>>, upsampled |-> <<>>, emitted |-> 0, fed |-> <<>>]

Init ==
    /\ apiKey \in BOOLEAN
    /\ whatsappPc = 0
    /\ currentCallId = 0
    /\ ultravoxWs = 0
    /\ audioSource = 0
    /\ audioSink = 0
    /\ audioBuffer = <<>>
    /\ pcs = [h \in Handlers |-> NoPc]
    /\ wss = [h \in Handlers |-> NoWs]
    /\ sinks = [h \in Handlers |-> NoSink]
    /\ sources = [h \in Handlers |-> <<>>]
    /\ calls = [h \in Handlers |-> NoCall]
    /\ nConnects = 0
    /\ nTerminates = 0
    /\ nMsgs = 0
    /\ released = NoRelease
    /\ hist = NoHist
    /\ sent = [h \in Handlers |-> <<>>]
    /\ tele = NoTele

\* the inputs (webhook events and socket messages) received so far
Inputs == nConnects + nTerminates + nMsgs + tele.calls

\* ------------------------------------------------------- handler fragments

\* mutant: the credential check is skipped
NoCredentialIgnored == FALSE

\* if (!ULTRAVOX_API_KEY)
NoCredential == ~apiKey

\* mutant: the catch block logs the error and sends no reject
SetupFailedNoReject(c, kind, cid) ==
    [c EXCEPT !.pc = "done", !.fail = kind]

\* catch (error) { ...; await rejectCall(currentCallId); } : the setup of call
\* record c failed with `kind`; the reject request carries the current call id.
SetupFailed(c, kind, cid) ==
    [c EXCEPT !.pc = "rejecting", !.fail = kind, !.rejectId = cid]

\* mutant: a later resolve() or reject() overrides the settled outcome
SettleAgain(p, outcome) == outcome

\* One settlement of the promise of connectToUltravox: resolve() and reject()
\* of an already settled promise do nothing.
Settle(p, outcome) == IF p = "pending" THEN outcome ELSE p

\* mutant: a failed pre_accept is sent again
AfterPreAcceptRetries(c, preOk) ==
    IF preOk
    THEN [c EXCEPT !.pc = "done", !.preRes = "ok",
                   !.acceptTimer = "armed", !.acceptDelay = ACCEPT_DELAY]
    ELSE [c EXCEPT !.pc = "preAccept", !.preRes = "failed", !.preCount = @ + 1]

\* mutant: the accept timer is armed whatever pre_accept returned
AfterPreAcceptAlwaysArms(c, preOk) ==
    [c EXCEPT !.pc = "done",
              !.preRes = IF preOk THEN "ok" ELSE "failed",
              !.acceptTimer = "armed",
              !.acceptDelay = ACCEPT_DELAY]

\* answer.sdp.replace("a=setup:actpass", "a=setup:active"): a string pattern
\* replaces the first occurrence only
SetupActive(sdp) ==
    LET hits == {i \in 1..Len(sdp) : sdp[i] = "actpass"} IN
    IF hits = {} THEN sdp
    ELSE [sdp EXCEPT ![CHOOSE i \in hits : \A j \in hits : i <= j] = "active"]

\* const preOk = await answerWhatsAppCall(..., "pre_accept");
\* if (preOk) setTimeout(..., 1000);   then setupBridge and the handler return
AfterPreAccept(c, preOk) ==
    [c EXCEPT !.pc = "done",
              !.preRes = IF preOk THEN "ok" ELSE "failed",
              !.acceptTimer = IF preOk THEN "armed" ELSE "none",
              !.acceptDelay = IF preOk THEN ACCEPT_DELAY ELSE 0]

\* mutant: the error listener fails the setup whatever the state of the promise
OnErrorAlwaysFails(c, cid) == SetupFailed([c EXCEPT !.promise = "rejected"], "socket", cid)

\* ultravoxWs.on("error"): logged, reject(err); a rejection that settles the
\* promise is thrown into setupBridge and caught by the webhook handler
OnError(c, cid) ==
    LET p == Settle(c.promise, "rejected")
        thrown == p = "rejected" /\ c.promise # "rejected"
    IN  IF thrown THEN SetupFailed([c EXCEPT !.promise = p], "socket", cid)
        ELSE [c EXCEPT !.promise = p]

\* mutant: setupBridge calls connectToUltravox without awaiting it and goes on
\* to apply the offer
StartConnectNoWait(c) ==
    [c EXCEPT !.pc = "setRemote", !.promise = "pending", !.offered = TRUE]

\* await connectToUltravox(ultravoxJoinUrl): setupBridge is suspended on the
\* pending promise
StartConnect(c) ==
    [c EXCEPT !.pc = "connecting", !.promise = "pending"]

\* The continuation of setupBridge after `await connectToUltravox(...)`:
\* whatsappPc.ontrack = ...; await whatsappPc.setRemoteDescription(...).
\* A null whatsappPc makes the assignment throw a TypeError.
ResumeAfterConnect(c, pcRef, cid) ==
    IF pcRef = 0 THEN SetupFailed(c, "negotiation", cid)
    ELSE [c EXCEPT !.pc = "setRemote", !.offered = TRUE]

\* mutant: cleanup() as in the variants that have no accumulation buffer
cleanupKeepsBuffer(st) ==
    LET s1 == IF st.ultravoxWs # 0
              THEN [st EXCEPT !.wss[st.ultravoxWs].readyState = "CLOSED",
                              !.wss[st.ultravoxWs].closeCalls = @ + 1,
                              !.ultravoxWs = 0]
              ELSE st
        s2 == IF s1.whatsappPc # 0
              THEN [s1 EXCEPT !.pcs[s1.whatsappPc].state = "closed",
                              !.pcs[s1.whatsappPc].closeCalls = @ + 1,
                              !.whatsappPc = 0]
              ELSE s1
        s3 == IF s2.audioSink # 0
              THEN [s2 EXCEPT !.sinks[s2.audioSink].state = "stopped",
                              !.sinks[s2.audioSink].stopCalls = @ + 1,
                              !.audioSink = 0]
              ELSE s2
    IN  [s3 EXCEPT !.audioSource = 0]

\* mutant: cleanup() closes the legs and keeps the references to them
cleanupKeepsRefs(st) ==
    LET s1 == IF st.ultravoxWs # 0
              THEN [st EXCEPT !.wss[st.ultravoxWs].readyState = "CLOSED",
                              !.wss[st.ultravoxWs].closeCalls = @ + 1]
              ELSE st
        s2 == IF s1.whatsappPc # 0
              THEN [s1 EXCEPT !.pcs[s1.whatsappPc].state = "closed",
                              !.pcs[s1.whatsappPc].closeCalls = @ + 1]
              ELSE s1
        s3 == IF s2.audioSink # 0
              THEN [s2 EXCEPT !.sinks[s2.audioSink].state = "stopped",
                              !.sinks[s2.audioSink].stopCalls = @ + 1]
              ELSE s2
    IN  [s3 EXCEPT !.audioSource = 0, !.audioBuffer = <<>>]

\* function cleanup(), on the record st of the module variables and objects
cleanup(st) ==
    LET s1 == IF st.ultravoxWs # 0
              THEN [st EXCEPT !.wss[st.ultravoxWs].readyState = "CLOSED",
                              !.wss[st.ultravoxWs].closeCalls = @ + 1,
                              !.ultravoxWs = 0]
              ELSE st
        s2 == IF s1.whatsappPc # 0
              THEN [s1 EXCEPT !.pcs[s1.whatsappPc].state = "closed",
                              !.pcs[s1.whatsappPc].closeCalls = @ + 1,
                              !.whatsappPc = 0]
              ELSE s1
        s3 == IF s2.audioSink # 0
              THEN [s2 EXCEPT !.sinks[s2.audioSink].state = "stopped",
                              !.sinks[s2.audioSink].stopCalls = @ + 1,
                              !.audioSink = 0]
              ELSE s2
    IN  [s3 EXCEPT !.audioSource = 0, !.audioBuffer = <<>>]

\* the part of the state cleanup reads and writes
Legs == [ultravoxWs |-> ultravoxWs, whatsappPc |-> whatsappPc, audioSink |-> audioSink,
         audioSource |-> audioSource, audioBuffer |-> audioBuffer,
         wss |-> wss, pcs |-> pcs, sinks |-> sinks]

\* both legs of one call are ready: the current AI socket is open and the setup
\* that created the current peer connection has applied the offer and set the
\* local answer (it has gone on to send pre_accept)
BridgeActive ==
    \E h \in Handlers :
        /\ whatsappPc = h
        /\ ultravoxWs = h
        /\ wss[h].readyState = "OPEN"
        /\ calls[h].offered
        /\ calls[h].preId # 0

\* ------------------------------------------------------------ audio path

\* a telephony sample: the number num / den
Q(n, d) == [num |-> n, den |-> d]

\* data.samples of the telephony audio callbacks: amplitudes within and beyond
\* [-1, 1], and integer samples
SinkChunks ==
    { <<>>,
      <<Q(1, 4), Q(-5, 4), Q(2, 4), Q(-4, 4), Q(3, 4)>>,
      <<Q(-1, 4), Q(4, 4), Q(4, 4), Q(4, 4), Q(4, 4), Q(4, 4),
        Q(3, 4), Q(-2, 4), Q(-2, 4), Q(-2, 4), Q(-2, 4), Q(-2, 4)>>,
      <<Q(6, 4), Q(0, 4), Q(0, 4), Q(0, 4), Q(0, 4), Q(0, 4),
        Q(-6, 4), Q(0, 4), Q(0, 4), Q(0, 4), Q(0, 4), Q(0, 4), Q(5, 4)>>,
      <<Q(1000, 1), Q(0, 1), Q(0, 1), Q(0, 1), Q(0, 1), Q(0, 1),
        Q(-1, 1), Q(0, 1), Q(0, 1), Q(0, 1), Q(0, 1), Q(0, 1)>> }

\* Math.floor(s * 32767)
Scale(s) == (s.num * FullScale) \div s.den

\* the value an Int16Array element takes when x is stored in it
ToInt16(x) == ((x - Int16Min) % (Int16Max - Int16Min + 1)) + Int16Min

\* mutant: the scaled sample is stored without being clamped
Clamp16Missing(x) == x

\* Math.max(-32768, Math.min(32767, x))
Clamp16(x) == IF x > Int16Max THEN Int16Max ELSE IF x < Int16Min THEN Int16Min ELSE x

\* mutant: the scaled sample is truncated toward zero
DownsampleTruncates(samples) ==
    [i \in 1..(Len(samples) \div DownRatio) |->
        LET s == samples[(i - 1) * DownRatio + 1]
            t == IF s.num < 0 THEN -((-s.num * FullScale) \div s.den) ELSE Scale(s)
        IN  ToInt16(Clamp16(t))]

\* Downsample from 48kHz to 8kHz: int16[i] = clamp(floor(samples[i * ratio] * 32767))
Downsample(samples) ==
    [i \in 1..(Len(samples) \div DownRatio) |->
        ToInt16(Clamp16(Scale(samples[(i - 1) * DownRatio + 1])))]

\* mutant: every input sample is written ratio - 1 times
UpsampleShort(in) ==
    [k \in 1..(Len(in) * (UpRatio - 1)) |-> in[((k - 1) \div (UpRatio - 1)) + 1]]

\* Upsample 8kHz to 48kHz: every input sample is written `ratio` times
Upsample(in) == [k \in 1..(Len(in) * UpRatio) |-> in[((k - 1) \div UpRatio) + 1]]

\* mutant: the frame loop runs only while more than one frame is buffered
RECURSIVE DrainLeavesFullFrame(_, _)
DrainLeavesFullFrame(buf, out) ==
    IF Len(buf) * BytesPerSample > FRAME_SIZE
    THEN DrainLeavesFullFrame(SubSeq(buf, FrameSamples + 1, Len(buf)),
                              Append(out, SubSeq(buf, 1, FrameSamples)))
    ELSE [buffer |-> buf, frames |-> out]

\* while (audioBuffer.length >= FRAME_SIZE) { frame = slice(0, FRAME_SIZE); ... }
RECURSIVE Drain(_, _)
Drain(buf, out) ==
    IF Len(buf) * BytesPerSample >= FRAME_SIZE
    THEN Drain(SubSeq(buf, FrameSamples + 1, Len(buf)),
               Append(out, SubSeq(buf, 1, FrameSamples)))
    ELSE [buffer |-> buf, frames |-> out]

\* mutant: the new samples are put in front of the retained remainder
AccumulatePrepends(buf, newData) == newData \o buf

\* audioBuffer = Buffer.concat([audioBuffer, newData])
Accumulate(buf, newData) == buf \o newData

\* mutant: setupBridge keeps the accumulation buffer of the previous bridge
FreshBufferKept == audioBuffer

\* audioBuffer = Buffer.alloc(0) in setupBridge
FreshBuffer == <<>>

\* the Int16 samples of message number m, of which the view holds n
Payload(m, n) ==
    [i \in 1..n |-> IF i = 1 THEN 32767 ELSE IF i = 2 THEN -32768 ELSE m * 100 + i]

\* new Int16Array(data.buffer, data.byteOffset, data.length / 2): the length is
\* truncated to an integer; a byteOffset that is not a multiple of 2 throws a
\* RangeError
Int16View(m, d) ==
    [thrown |-> ~d.aligned,
     samples |-> IF d.aligned THEN Payload(m, d.bytes \div BytesPerSample) ELSE <<>>]

\* the text frames the AI socket may deliver, and the length of each in bytes
TextKinds == {"transcript", "state", "unknown", "unparseable"}
TextBytes(t) ==
    CASE t = "transcript" -> 48 [] t = "state" -> 31 [] t = "unknown" -> 15 [] OTHER -> 4

\* the "message" listener of the AI socket of handler h, called with data d: the
\* body that runs whenever the listener is called.  t is "none" for a binary
\* frame and the kind of message for a text frame; isBuffer is
\* Buffer.isBuffer(data): true for a binary frame, and for a text frame true or
\* false with the version of the socket library (which hands text frames over
\* as strings, or as Buffers together with an isBinary flag the listener does
\* not take)
OnMessage(h, d, t, isBuffer) ==
    /\ nMsgs' = nMsgs + 1
    /\ IF isBuffer /\ audioSource # 0 /\ d.bytes > 0
       THEN LET int16In == Int16View(nMsgs + 1, d)
                upsampled == Upsample(int16In.samples)
                dr == Drain(Accumulate(audioBuffer, upsampled), <<>>)
            IN  IF int16In.thrown
                THEN /\ hist' = [hist EXCEPT !.ws = h, !.data = d, !.text = t, !.thrown = TRUE, !.int16In = <<>>,
                                             !.upsampled = <<>>, !.emitted = 0]
                     /\ UNCHANGED <<audioBuffer, sources>>
                ELSE /\ audioBuffer' = dr.buffer
                     /\ sources' = [sources EXCEPT ![audioSource] = @ \o dr.frames]
                     /\ hist' = [ws |-> h, data |-> d, text |-> t, thrown |-> FALSE, int16In |-> int16In.samples,
                                 upsampled |-> upsampled, emitted |-> Len(dr.frames),
                                 fed |-> hist.fed \o upsampled]
       ELSE /\ hist' = [hist EXCEPT !.ws = h, !.data = d, !.text = t, !.thrown = FALSE, !.int16In = <<>>,
                                    !.upsampled = <<>>, !.emitted = 0]
            /\ UNCHANGED <<audioBuffer, sources>>
    /\ UNCHANGED <<sent, tele, released, apiKey, whatsappPc, currentCallId, ultravoxWs, audioSource,
                   audioSink, pcs, wss, sinks, calls, nConnects, nTerminates>>

\* --------------------------------------------------------------- actions

\* POST /webhook with event "connect"
Connect ==
    /\ nConnects < MaxConnects
    /\ Inputs < MaxInputs
    /\ LET h == nConnects + 1 IN
        /\ nConnects' = h
        /\ currentCallId' = h
        /\ calls' = [calls EXCEPT ![h] =
              IF NoCredential
              THEN [@ EXCEPT !.pc = "rejecting", !.rejectId = h]
              ELSE [@ EXCEPT !.pc = "provisioning", !.provReq = TRUE]]
    /\ UNCHANGED <<sent, tele, hist, released, apiKey, whatsappPc, ultravoxWs, audioSource, audioSink, audioBuffer,
                   pcs, wss, sinks, sources, nTerminates, nMsgs>>

\* the response of createUltravoxCall arrives; on success setupBridge runs up to
\* the promise of connectToUltravox
ProvisionResp(h, ok) ==
    /\ calls[h].pc = "provisioning"
    /\ IF ok
       THEN /\ whatsappPc' = h
            /\ audioBuffer' = FreshBuffer
            /\ hist' = [hist EXCEPT !.fed = FreshBuffer]
            /\ audioSource' = h
            /\ ultravoxWs' = h
            /\ pcs' = [pcs EXCEPT ![h].state = "open"]
            /\ wss' = [wss EXCEPT ![h].readyState = "CONNECTING"]
            /\ calls' = [calls EXCEPT ![h] = StartConnect(@)]
       ELSE /\ calls' = [calls EXCEPT ![h] = SetupFailed(@, "provisioning", currentCallId)]
            /\ UNCHANGED <<hist, whatsappPc, audioBuffer, audioSource, ultravoxWs, pcs, wss>>
    /\ UNCHANGED <<sent, tele, released, apiKey, currentCallId, audioSink, sinks, sources,
                   nConnects, nTerminates, nMsgs>>

\* "open" event of the AI socket of handler h: resolve(); when this settles the
\* promise, setupBridge resumes (ontrack is installed, setRemoteDescription starts)
WsOpen(h) ==
    /\ wss[h].readyState = "CONNECTING"
    /\ wss' = [wss EXCEPT ![h].readyState = "OPEN", ![h].opened = TRUE]
    /\ LET p == Settle(calls[h].promise, "resolved")
           resumed == p = "resolved" /\ calls[h].promise # "resolved"
           c == [calls[h] EXCEPT !.promise = p]
       IN  /\ calls' = [calls EXCEPT ![h] =
                 IF resumed THEN ResumeAfterConnect(c, whatsappPc, currentCallId) ELSE c]
           /\ pcs' = IF resumed /\ whatsappPc # 0
                     THEN [pcs EXCEPT ![whatsappPc].ontrack = TRUE,
                                      ![whatsappPc].remote = h]
                     ELSE pcs
    /\ UNCHANGED <<sent, tele, hist, released, apiKey, whatsappPc, currentCallId, ultravoxWs, audioSource, audioSink,
                   audioBuffer, sinks, sources, nConnects, nTerminates, nMsgs>>

\* setTimeout(() => reject(new Error("Timeout")), 15000) fires.  reject() of a
\* settled promise does nothing, so the timer is followed only while the promise
\* is pending.
ConnectTimeout(h) ==
    /\ calls[h].promise = "pending"
    /\ LET p == Settle(calls[h].promise, "rejected")
           c == [calls[h] EXCEPT !.promise = p]
       IN  calls' = [calls EXCEPT ![h] =
                 IF p = "rejected" THEN SetupFailed(c, "timeout", currentCallId) ELSE c]
    /\ UNCHANGED <<sent, tele, hist, released, apiKey, whatsappPc, currentCallId, ultravoxWs, audioSource, audioSink,
                   audioBuffer, pcs, wss, sinks, sources, nConnects, nTerminates, nMsgs>>

\* "error" event of the AI socket of handler h: logged, reject(err).  The socket
\* library leaves an errored socket not OPEN; a socket closed while CONNECTING
\* reports the aborted handshake as an error.
WsError(h) ==
    /\ \/ wss[h].readyState \in {"CONNECTING", "OPEN"}
       \/ wss[h].readyState = "CLOSED" /\ calls[h].promise = "pending"
    /\ wss' = [wss EXCEPT ![h].readyState = "CLOSED"]
    /\ calls' = [calls EXCEPT ![h] = OnError(@, currentCallId)]
    /\ UNCHANGED <<sent, tele, hist, released, apiKey, whatsappPc, currentCallId, ultravoxWs, audioSource, audioSink,
                   audioBuffer, pcs, sinks, sources, nConnects, nTerminates, nMsgs>>

\* "close" event of an open AI socket closed by the peer: logged only
WsClose(h) ==
    /\ wss[h].readyState = "OPEN"
    /\ wss' = [wss EXCEPT ![h].readyState = "CLOSED"]
    /\ UNCHANGED <<sent, tele, hist, released, apiKey, whatsappPc, currentCallId, ultravoxWs, audioSource, audioSink,
                   audioBuffer, pcs, sinks, sources, calls, nConnects, nTerminates, nMsgs>>

\* setRemoteDescription settles; on success: await whatsappPc.createAnswer()
SetRemoteResp(h, ok) ==
    /\ calls[h].pc = "setRemote"
    /\ calls' = [calls EXCEPT ![h] =
          IF ok /\ whatsappPc # 0
          THEN [@ EXCEPT !.pc = "createAnswer"]
          ELSE SetupFailed(@, "negotiation", currentCallId)]
    /\ UNCHANGED <<sent, tele, hist, released, apiKey, whatsappPc, currentCallId, ultravoxWs, audioSource, audioSink,
                   audioBuffer, pcs, wss, sinks, sources, nConnects, nTerminates, nMsgs>>

\* createAnswer settles; on success: await whatsappPc.setLocalDescription(answer)
CreateAnswerResp(h, ok) ==
    /\ calls[h].pc = "createAnswer"
    /\ calls' = [calls EXCEPT ![h] =
          IF ok /\ whatsappPc # 0
          THEN [@ EXCEPT !.pc = "setLocal", !.answer = AnswerSdp(h)]
          ELSE SetupFailed(@, "negotiation", currentCallId)]
    /\ UNCHANGED <<sent, tele, hist, released, apiKey, whatsappPc, currentCallId, ultravoxWs, audioSource, audioSink,
                   audioBuffer, pcs, wss, sinks, sources, nConnects, nTerminates, nMsgs>>

\* setLocalDescription settles; on success the pre_accept request is sent with
\* the current call id
SetLocalResp(h, ok) ==
    /\ calls[h].pc = "setLocal"
    /\ calls' = [calls EXCEPT ![h] =
          IF ok
          THEN [@ EXCEPT !.pc = "preAccept", !.preId = currentCallId,
                         !.preCount = @ + 1,
                         !.finalSdp = SetupActive(calls[h].answer),
                         !.preSdp = SetupActive(calls[h].answer)]
          ELSE SetupFailed(@, "negotiation", currentCallId)]
    /\ UNCHANGED <<sent, tele, hist, released, apiKey, whatsappPc, currentCallId, ultravoxWs, audioSource, audioSink,
                   audioBuffer, pcs, wss, sinks, sources, nConnects, nTerminates, nMsgs>>

\* answerWhatsAppCall(..., "pre_accept") returns preOk
PreAcceptResp(h, preOk) ==
    /\ calls[h].pc = "preAccept"
    /\ calls' = [calls EXCEPT ![h] = AfterPreAccept(@, preOk)]
    /\ UNCHANGED <<sent, tele, hist, released, apiKey, whatsappPc, currentCallId, ultravoxWs, audioSource, audioSink,
                   audioBuffer, pcs, wss, sinks, sources, nConnects, nTerminates, nMsgs>>

\* the timer armed after pre_accept fires: the accept request is sent with the
\* current call id
AcceptTimerFire(h) ==
    /\ calls[h].acceptTimer = "armed"
    /\ calls' = [calls EXCEPT ![h].acceptTimer = "fired",
                              ![h].acceptId = currentCallId,
                              ![h].acceptSdp = calls[h].finalSdp,
                              ![h].acceptRes = "pending"]
    /\ UNCHANGED <<sent, tele, hist, released, apiKey, whatsappPc, currentCallId, ultravoxWs, audioSource, audioSink,
                   audioBuffer, pcs, wss, sinks, sources, nConnects, nTerminates, nMsgs>>

\* answerWhatsAppCall(..., "accept") returns
AcceptResp(h, ok) ==
    /\ calls[h].acceptRes = "pending"
    /\ calls' = [calls EXCEPT ![h].acceptRes = IF ok THEN "ok" ELSE "failed"]
    /\ UNCHANGED <<sent, tele, hist, released, apiKey, whatsappPc, currentCallId, ultravoxWs, audioSource, audioSink,
                   audioBuffer, pcs, wss, sinks, sources, nConnects, nTerminates, nMsgs>>

\* rejectCall returns (its errors are swallowed); the handler answers 200
RejectResp(h) ==
    /\ calls[h].pc = "rejecting"
    /\ calls' = [calls EXCEPT ![h].pc = "done"]
    /\ UNCHANGED <<sent, tele, hist, released, apiKey, whatsappPc, currentCallId, ultravoxWs, audioSource, audioSink,
                   audioBuffer, pcs, wss, sinks, sources, nConnects, nTerminates, nMsgs>>

\* POST /webhook with event "terminate" and call id cid
Terminate(cid) ==
    /\ nTerminates < MaxTerminates
    /\ Inputs < MaxInputs
    /\ nTerminates' = nTerminates + 1
    /\ currentCallId' = cid
    /\ LET r == cleanup(Legs) IN
        /\ ultravoxWs' = r.ultravoxWs
        /\ whatsappPc' = r.whatsappPc
        /\ audioSink' = r.audioSink
        /\ audioSource' = r.audioSource
        /\ audioBuffer' = r.audioBuffer
        /\ wss' = r.wss
        /\ pcs' = r.pcs
        /\ sinks' = r.sinks
    /\ calls' = [h \in Handlers |->
          IF h = cid /\ calls[h].pc # "idle"
          THEN [calls[h] EXCEPT !.terminated = TRUE] ELSE calls[h]]
    /\ released' = [ws |-> ultravoxWs, pc |-> whatsappPc, sink |-> audioSink,
                    source |-> audioSource, samples |-> Len(audioBuffer),
                    active |-> BridgeActive]
    /\ hist' = [hist EXCEPT !.fed = cleanup(Legs).audioBuffer]
    /\ UNCHANGED <<sent, tele, apiKey, sources, nConnects, nMsgs>>

\* whatsappPc.ontrack of peer connection g: the remote audio track arrives (once)
OnTrack(g) ==
    /\ pcs[g].state = "open"
    /\ pcs[g].ontrack
    /\ pcs[g].remote # 0
    /\ sinks[g].state = "none"
    /\ sinks' = [sinks EXCEPT ![g].state = "active"]
    /\ audioSink' = g
    /\ UNCHANGED <<sent, tele, hist, released, apiKey, whatsappPc, currentCallId, ultravoxWs, audioSource, audioBuffer,
                   pcs, wss, sources, calls, nConnects, nTerminates, nMsgs>>

\* "message" event of the AI socket of handler h with the binary message d
WsMessage(h, d) ==
    /\ wss[h].readyState = "OPEN"
    /\ nMsgs < MaxMsgs
    /\ Inputs < MaxInputs
    /\ OnMessage(h, d, "none", TRUE)

\* "message" event of the AI socket of handler h with a text frame of kind t
WsText(h, t, isBuffer) ==
    /\ wss[h].readyState = "OPEN"
    /\ nMsgs < MaxMsgs
    /\ Inputs < MaxInputs
    /\ OnMessage(h, [bytes |-> TextBytes(t), aligned |-> TRUE], t, isBuffer)

\* mutant: ondata checks that the socket exists and not that it is open
CanSendUnopened == ultravoxWs # 0

\* if (ultravoxWs && ultravoxWs.readyState === WebSocket.OPEN)
CanSend == ultravoxWs # 0 /\ wss[ultravoxWs].readyState = "OPEN"

\* audioSink.ondata of the sink of peer connection g: the body that runs
\* whenever the callback is called
OnData(g, samples) ==
    /\ IF CanSend
       THEN /\ sent' = [sent EXCEPT ![ultravoxWs] = Append(@, Downsample(samples))]
            /\ tele' = [calls |-> tele.calls + 1, samples |-> samples,
                        to |-> ultravoxWs, out |-> Downsample(samples)]
       ELSE /\ tele' = [calls |-> tele.calls + 1, samples |-> samples, to |-> 0, out |-> <<>>]
            /\ UNCHANGED sent
    /\ UNCHANGED <<hist, released, apiKey, whatsappPc, currentCallId, ultravoxWs, audioSource,
                   audioSink, audioBuffer, pcs, wss, sinks, sources, calls,
                   nConnects, nTerminates, nMsgs>>

\* the sink of peer connection g delivers 10 ms of telephony audio
SinkData(g, samples) ==
    /\ sinks[g].state = "active"
    /\ tele.calls < MaxData
    /\ Inputs < MaxInputs
    /\ OnData(g, samples)

Next ==
    \/ Connect
    \/ \E h \in Handlers, ok \in BOOLEAN : ProvisionResp(h, ok)
    \/ \E h \in Handlers : WsOpen(h)
    \/ \E h \in Handlers : ConnectTimeout(h)
    \/ \E h \in Handlers : WsError(h)
    \/ \E h \in Handlers : WsClose(h)
    \/ \E h \in Handlers, ok \in BOOLEAN : SetRemoteResp(h, ok)
    \/ \E h \in Handlers, ok \in BOOLEAN : CreateAnswerResp(h, ok)
    \/ \E h \in Handlers, ok \in BOOLEAN : SetLocalResp(h, ok)
    \/ \E h \in Handlers, ok \in BOOLEAN : PreAcceptResp(h, ok)
    \/ \E h \in Handlers : AcceptTimerFire(h)
    \/ \E h \in Handlers, ok \in BOOLEAN : AcceptResp(h, ok)
    \/ \E h \in Handlers : RejectResp(h)
    \/ \E cid \in CallIds : Terminate(cid)
    \/ \E g \in Handlers : OnTrack(g)
    \/ \E h \in Handlers, d \in Packets : WsMessage(h, d)
    \/ \E h \in Handlers, t \in TextKinds, isBuffer \in BOOLEAN : WsText(h, t, isBuffer)
    \/ \E g \in Handlers, samples \in SinkChunks : SinkData(g, samples)

Spec == Init /\ [][Next]_vars

\* ------------------------------------------------- the established bridge

\* the handler of a call whose setup ran to the end
BridgedCall ==
    [NoCall EXCEPT !.pc = "done", !.provReq = TRUE, !.promise = "resolved", !.offered = TRUE,
                   !.preId = 1, !.preCount = 1, !.preRes = "ok", !.acceptTimer = "fired",
                   !.acceptDelay = ACCEPT_DELAY, !.acceptId = 1, !.acceptRes = "ok",
                   !.answer = <<"actpass">>, !.finalSdp = <<"active">>,
                   !.preSdp = <<"active">>, !.acceptSdp = <<"active">>]

\* the state in which call 1 is connected and no audio has flowed yet
BridgeUp ==
    /\ apiKey = TRUE
    /\ whatsappPc = 1
    /\ currentCallId = 1
    /\ ultravoxWs = 1
    /\ audioSource = 1
    /\ audioSink = 1
    /\ audioBuffer = <<>>
    /\ pcs = [h \in Handlers |-> IF h = 1
                 THEN [NoPc EXCEPT !.state = "open", !.ontrack = TRUE, !.remote = 1] ELSE NoPc]
    /\ wss = [h \in Handlers |-> IF h = 1
                 THEN [NoWs EXCEPT !.readyState = "OPEN", !.opened = TRUE] ELSE NoWs]
    /\ sinks = [h \in Handlers |-> IF h = 1 THEN [NoSink EXCEPT !.state = "active"] ELSE NoSink]
    /\ sources = [h \in Handlers |-> <<>>]
    /\ calls = [h \in Handlers |-> IF h = 1 THEN BridgedCall ELSE NoCall]
    /\ nConnects = 1
    /\ nTerminates = 0
    /\ nMsgs = 0
    /\ released = NoRelease
    /\ hist = NoHist
    /\ sent = [h \in Handlers |-> <<>>]
    /\ tele = NoTele

\* a binary message arrives on the AI socket of the established bridge
FeedMessage(h, d) ==
    /\ wss[h].readyState = "OPEN"
    /\ nMsgs < MaxFeeds
    /\ OnMessage(h, d, "none", TRUE)

\* the sink of the established bridge delivers telephony audio
FeedData(g, samples) ==
    /\ sinks[g].state = "active"
    /\ tele.calls < MaxData
    /\ OnData(g, samples)

NextAudio ==
    \/ \E h \in Handlers, d \in Packets : FeedMessage(h, d)
    \/ \E g \in Handlers, samples \in SinkChunks : FeedData(g, samples)

\* the audio that flows over an established bridge, from the state BridgeUp on
SpecAudio == BridgeUp /\ [][NextAudio]_vars

\* --------------------------------------------------- the bridge in loopback

\* Int16 samples as data.samples of a telephony audio callback
AsSamples(int16) == [k \in 1..Len(int16) |-> Q(int16[k], 1)]

\* the telephony peer plays back what the latest message was upsampled to: the
\* sink delivers those samples
EchoData(g) ==
    /\ sinks[g].state = "active"
    /\ tele.calls < MaxData
    /\ hist.upsampled # <<>>
    /\ OnData(g, AsSamples(hist.upsampled))

NextEcho ==
    \/ \E h \in Handlers, d \in Packets : FeedMessage(h, d)
    \/ \E g \in Handlers : EchoData(g)

\* messages fed to an established bridge whose telephony peer echoes them
SpecEcho == BridgeUp /\ [][NextEcho]_vars

\* ------------------------------------------------------------------ claims

\* C1: an accept request is sent only by the timer that was armed, with the
\* fixed delay, after the pre_accept request of the same setup returned success.
C1_HandshakeOrdering ==
    \A h \in Handlers :
        (calls[h].acceptId # 0 \/ calls[h].acceptRes # "none" \/ calls[h].acceptTimer # "none")
        => /\ calls[h].preId # 0
           /\ calls[h].preRes = "ok"
           /\ calls[h].acceptDelay = ACCEPT_DELAY
           /\ (calls[h].acceptId # 0 <=> calls[h].acceptTimer = "fired")

C1_Witness ==
    \E h \in Handlers : calls[h].preRes = "ok" /\ calls[h].acceptRes = "ok"

\* C2 (as claimed): once the terminate event of a call has been processed, the
\* accept timer of that call's setup does not fire: no accept is sent afterwards.
C2_NoAcceptAfterTerminate ==
    [][\A h \in Handlers :
          (calls[h].terminated /\ calls[h].acceptId = 0) => calls'[h].acceptId = 0]_vars

\* C3 (as claimed): the peer connections and AI sockets of two calls are never
\* live at the same time.
LiveCalls ==
    {h \in Handlers : pcs[h].state = "open" \/ wss[h].readyState \in {"CONNECTING", "OPEN"}}

C3_SingleSession == Cardinality(LiveCalls) <= 1

\* C4 (as claimed): with no terminate event, a connect event whose handling has
\* come to rest ended in a successful accept or in a reject request.
AtRest(h) ==
    /\ calls[h].pc = "done"
    /\ calls[h].acceptTimer # "armed"
    /\ calls[h].acceptRes # "pending"

C4_ConnectsOrRejects ==
    \A h \in Handlers :
        (nTerminates = 0 /\ AtRest(h))
        => (calls[h].acceptRes = "ok" \/ calls[h].rejectId # 0)

C6_NoCredentialRejects ==
    ~apiKey =>
        \A h \in Handlers :
            /\ ~calls[h].provReq
            /\ pcs[h].state = "none"
            /\ wss[h].readyState = "none"
            /\ sinks[h].state = "none"
            /\ calls[h].preId = 0
            /\ calls[h].acceptId = 0
            /\ calls[h].acceptTimer = "none"
            /\ (calls[h].pc # "idle" => calls[h].rejectId = h)
            /\ calls[h].pc \in {"idle", "rejecting", "done"}

C6_Witness ==
    ~apiKey /\ \E h \in Handlers : calls[h].pc = "done" /\ calls[h].rejectId = h

\* C7: a terminate event processed while the bridge is active closes the AI
\* socket, the peer connection and the audio sink, empties the accumulation
\* buffer and leaves every leg reference null.
TerminateStep == nTerminates' = nTerminates + 1

C7_TerminateReleasesBridge ==
    [][(TerminateStep /\ BridgeActive)
        => /\ wss'[ultravoxWs].readyState = "CLOSED"
           /\ pcs'[whatsappPc].state = "closed"
           /\ (audioSink # 0 => sinks'[audioSink].state = "stopped")
           /\ audioBuffer' = <<>>
           /\ ultravoxWs' = 0
           /\ whatsappPc' = 0
           /\ audioSink' = 0
           /\ audioSource' = 0]_vars

C7_Witness ==
    /\ released.active
    /\ released.sink # 0
    /\ released.samples > 0
    /\ wss[released.ws].readyState = "CLOSED"
    /\ pcs[released.pc].state = "closed"
    /\ sinks[released.sink].state = "stopped"
    /\ audioBuffer = <<>>
    /\ ultravoxWs = 0 /\ whatsappPc = 0 /\ audioSink = 0 /\ audioSource = 0

\* C8: cleanup is idempotent (a second cleanup changes nothing) and no socket,
\* peer connection or audio sink is closed or stopped more than once.
C8_TeardownIdempotent ==
    /\ cleanup(cleanup(Legs)) = cleanup(Legs)
    /\ \A h \in Handlers :
          /\ wss[h].closeCalls <= 1
          /\ pcs[h].closeCalls <= 1
          /\ sinks[h].stopCalls <= 1

C8_Witness ==
    /\ nTerminates = 2
    /\ \E h \in Handlers :
          /\ wss[h].closeCalls = 1
          /\ pcs[h].closeCalls = 1
          /\ sinks[h].stopCalls = 1

\* C9 (as claimed): after a setup failure has been handled, the peer connection
\* and the AI socket of that setup are closed and no leg reference points at them.
C9_SetupErrorReleases ==
    \A h \in Handlers :
        (calls[h].fail # "none" /\ calls[h].pc = "done")
        => /\ pcs[h].state # "open"
           /\ wss[h].readyState \notin {"CONNECTING", "OPEN"}
           /\ whatsappPc # h
           /\ ultravoxWs # h
           /\ audioSource # h

\* C10: when the connect timeout fired before the AI socket opened, a later open
\* of that socket does not resume the setup: no offer is applied and neither
\* pre_accept nor accept is sent.
C10_LateOpenIgnored ==
    \A h \in Handlers :
        calls[h].fail = "timeout"
        => /\ calls[h].promise = "rejected"
           /\ calls[h].pc \in {"rejecting", "done"}
           /\ ~calls[h].offered
           /\ \A g \in Handlers : pcs[g].remote # h
           /\ calls[h].preId = 0
           /\ calls[h].acceptId = 0
           /\ calls[h].acceptTimer = "none"

C10_Witness ==
    \E h \in Handlers : calls[h].fail = "timeout" /\ wss[h].readyState = "OPEN"

\* C11: when pre_accept returned failure, no accept timer is armed, no accept is
\* sent and pre_accept was sent exactly once.
C11_FailedPreAcceptAborts ==
    \A h \in Handlers :
        /\ calls[h].preCount <= 1
        /\ calls[h].preRes = "failed"
           => /\ calls[h].pc = "done"
              /\ calls[h].preCount = 1
              /\ calls[h].acceptTimer = "none"
              /\ calls[h].acceptId = 0
              /\ calls[h].acceptRes = "none"

C11_Witness ==
    \E h \in Handlers :
        calls[h].preRes = "failed" /\ calls[h].pc = "done" /\ calls[h].preCount = 1

\* C12: the offer is applied, and pre_accept is sent, only by a setup whose own
\* AI socket has reported open.
C12_AiLegFirst ==
    \A h \in Handlers :
        (calls[h].offered \/ calls[h].preId # 0 \/
         calls[h].pc \in {"setRemote", "createAnswer", "setLocal", "preAccept"})
        => wss[h].opened

C12_Witness ==
    \E h \in Handlers : calls[h].preId # 0 /\ wss[h].opened /\ calls[h].offered

\* C13: every frame handed to a telephony audio source holds exactly FRAME_SIZE
\* bytes (480 samples), and after every message the retained remainder is
\* strictly smaller than one frame.
C13_FrameAlignment ==
    /\ \A g \in Handlers : \A i \in 1..Len(sources[g]) :
          /\ Len(sources[g][i]) * BytesPerSample = FRAME_SIZE
          /\ Len(sources[g][i]) = 480
    /\ Len(audioBuffer) * BytesPerSample < FRAME_SIZE
C13_Witness ==
    /\ BridgeActive
    /\ hist.emitted >= 1
    /\ Len(sources[audioSource]) >= 1
    /\ audioBuffer # <<>>

\* the samples of a sequence of frames, in order
RECURSIVE Flatten(_)
Flatten(frames) == IF frames = <<>> THEN <<>> ELSE Head(frames) \o Flatten(Tail(frames))

\* C14: while the bridge stays active, the frames emitted to the telephony leg
\* followed by the retained remainder are the upsampled samples fed so far, in
\* the order they were fed.
C14_FrameConservation ==
    BridgeActive => Flatten(sources[audioSource]) \o audioBuffer = hist.fed
C14_Witness ==
    /\ BridgeActive
    /\ nMsgs >= 2
    /\ hist.emitted >= 1
    /\ Len(hist.upsampled) * BytesPerSample < FRAME_SIZE
    /\ audioBuffer # <<>>

\* C15: a step that changes the telephony audio source (teardown, or the setup
\* of a new bridge) leaves the accumulation buffer empty and hands no frame to
\* any audio source.
C15_RemainderDiesWithSession ==
    [][audioSource' # audioSource => (audioBuffer' = <<>> /\ sources' = sources)]_vars
C15_Witness ==
    released.samples > 0 /\ released.source # 0 /\ audioSource = 0 /\ audioBuffer = <<>>

\* n / d rounded to the nearest integer (d > 0)
RoundDiv(n, d) == (2 * n + d) \div (2 * d)

\* the sum of the numerators of samples i*R .. i*R+R-1 (counting i from 0)
RECURSIVE WindowSum(_, _, _)
WindowSum(samples, i, k) ==
    IF k = 0 THEN 0
    ELSE samples[i * DownRatio + k].num + WindowSum(samples, i, k - 1)

\* C16 as stated: each output sample of the latest telephony callback that sent
\* is the average of R consecutive scaled input samples, rounded to the nearest
\* integer and clamped.
C16_Averages ==
    tele.to # 0 =>
        /\ Len(tele.out) = Len(tele.samples) \div DownRatio
        /\ \A i \in 1..Len(tele.out) :
              tele.out[i] = Clamp16(RoundDiv(FullScale * WindowSum(tele.samples, i - 1, DownRatio),
                                             DownRatio * tele.samples[1].den))

\* C16 amended: output sample i is input sample i*R alone, scaled by 32767,
\* rounded down and clamped to the 16-bit range; floor(n / R) samples are sent.
C16_Decimates ==
    tele.to # 0 =>
        /\ Len(tele.out) = Len(tele.samples) \div 6
        /\ sent[tele.to][Len(sent[tele.to])] = tele.out
        /\ \A i \in 1..Len(tele.out) :
              LET s == tele.samples[(i - 1) * 6 + 1]
                  x == tele.out[i]
              IN  \/ x = 32767 /\ s.num * 32767 >= 32767 * s.den
                  \/ x = -32768 /\ s.num * 32767 < -32767 * s.den
                  \/ /\ -32768 <= x /\ x <= 32767
                     /\ x * s.den <= s.num * 32767
                     /\ s.num * 32767 < (x + 1) * s.den
C16_Witness ==
    /\ tele.to # 0
    /\ Len(tele.out) >= 2
    /\ tele.out[1] < 0 /\ tele.out[1] > -32768
    /\ tele.samples[1] # tele.samples[2]

\* C17 as stated: the output samples of the latest converted message are
\* interpolated linearly from each input sample toward the next one.
C17_Interpolates ==
    /\ Len(hist.upsampled) = Len(hist.int16In) * UpRatio
    /\ \A i \in 1..Len(hist.int16In) : \A j \in 0..(UpRatio - 1) :
          LET cur == hist.int16In[i]
              next == IF i < Len(hist.int16In) THEN hist.int16In[i + 1] ELSE cur
          IN  hist.upsampled[(i - 1) * UpRatio + j + 1]
                 = RoundDiv(cur * (UpRatio - j) + next * j, UpRatio)

\* C17 amended: each input sample of a converted message yields 6 output
\* samples, all equal to that input sample.
C17_Replicates ==
    /\ Len(hist.upsampled) = Len(hist.int16In) * 6
    /\ \A i \in 1..Len(hist.int16In) : \A j \in 0..5 :
          hist.upsampled[(i - 1) * 6 + j + 1] = hist.int16In[i]
C17_Witness ==
    /\ Len(hist.int16In) >= 2
    /\ hist.int16In[1] # hist.int16In[2]
    /\ Len(hist.upsampled) >= 12
    /\ hist.emitted >= 1

InRange(x) == -32768 <= x /\ x <= 32767

\* C18: every sample sent to the AI socket and every sample framed for the
\* telephony leg lies in [-32768, 32767], and a telephony sample whose scaled
\* amplitude lies beyond a bound comes out as that bound.
C18_Clamping ==
    /\ \A h \in Handlers : \A k \in 1..Len(sent[h]) : \A i \in 1..Len(sent[h][k]) :
          InRange(sent[h][k][i])
    /\ \A g \in Handlers : \A k \in 1..Len(sources[g]) : \A i \in 1..Len(sources[g][k]) :
          InRange(sources[g][k][i])
    /\ \A i \in 1..Len(audioBuffer) : InRange(audioBuffer[i])
    /\ \A i \in 1..Len(hist.upsampled) : InRange(hist.upsampled[i])
    /\ \A i \in 1..Len(tele.out) :
          LET s == tele.samples[(i - 1) * 6 + 1] IN
          /\ s.num * 32767 >= 32767 * s.den => tele.out[i] = 32767
          /\ s.num * 32767 <= -32768 * s.den => tele.out[i] = -32768
C18_Witness ==
    /\ tele.out = <<32767, -32768>>
    /\ tele.samples[1].num > tele.samples[1].den
    /\ tele.samples[7].num < -tele.samples[7].den
    /\ hist.emitted >= 1
    /\ \E i \in 1..Len(hist.upsampled) : hist.upsampled[i] = -32768

\* the binary message d cannot be read as a whole number of aligned Int16 samples
Malformed(d) == d.bytes % BytesPerSample # 0 \/ ~d.aligned

\* C19: a message step that handles a malformed packet leaves the accumulation
\* buffer, the audio sources (no frame emitted), the session and both legs as
\* they were.
C19_MalformedDropped ==
    [][(nMsgs' = nMsgs + 1 /\ hist'.text = "none" /\ Malformed(hist'.data))
        => /\ audioBuffer' = audioBuffer
           /\ sources' = sources
           /\ <<whatsappPc, ultravoxWs, audioSource, audioSink, currentCallId>>'
                 = <<whatsappPc, ultravoxWs, audioSource, audioSink, currentCallId>>
           /\ <<pcs, wss, sinks, calls>>' = <<pcs, wss, sinks, calls>>]_vars

\* C20: an event that arrives in a state where the call state machine has no
\* transition for it is ignored or fails the call, and no setup stays suspended:
\* the accept timer of a terminated call sends nothing when it fires, a connect
\* event that arrives while a call's legs are live starts no second setup, and
\* a setup suspended on the AI socket still has its connect promise pending (so
\* the open, the error or the connect timeout resumes it).
C20_Totality ==
    [][/\ \A h \in Handlers :
             (calls[h].terminated /\ calls[h].acceptTimer = "armed"
                 /\ calls'[h].acceptTimer = "fired")
             => (calls'[h].acceptId = 0 /\ calls'[h].acceptRes = "none")
       /\ (nConnects' = nConnects + 1 /\ LiveCalls # {})
             => calls'[nConnects'].pc \in {"idle", "rejecting"}
       /\ \A h \in Handlers :
             calls[h].pc = "connecting" => calls[h].promise = "pending"]_vars

\* C21: the SDP sent with pre_accept and with accept contains no a=setup:actpass
\* line, whatever the answer contained, and accept carries the SDP that
\* pre_accept carried.
C21_SdpRoleActive ==
    \A h \in Handlers :
        /\ calls[h].preId # 0
              => \A i \in 1..Len(calls[h].preSdp) : calls[h].preSdp[i] # "actpass"
        /\ calls[h].acceptId # 0
              => /\ \A i \in 1..Len(calls[h].acceptSdp) : calls[h].acceptSdp[i] # "actpass"
                 /\ calls[h].acceptSdp = calls[h].preSdp

\* C22: a binary message changes the accumulation buffer, or hands frames to an
\* audio source, only when it arrives on the socket ultravoxWs refers to, and
\* the frames go to the audio source created by that socket's own setup.
C22_BufferOwnedByCurrentSocket ==
    [][(nMsgs' = nMsgs + 1 /\ (audioBuffer' # audioBuffer \/ sources' # sources))
        => /\ hist'.ws = ultravoxWs
           /\ audioSource = ultravoxWs]_vars

\* C23: an error (or close) event of an AI socket that had opened and whose
\* setup had gone on changes nothing but the socket's own state: no leg is
\* released, the buffer and the handshake progress stay as they were and no
\* reject, pre_accept or accept is sent.
C23_MidCallErrorLogged ==
    [][\A h \in Handlers :
          (/\ wss[h].readyState = "OPEN"
           /\ wss'[h].readyState = "CLOSED"
           /\ wss'[h].closeCalls = wss[h].closeCalls)
          => /\ calls' = calls
             /\ pcs' = pcs /\ sinks' = sinks /\ sources' = sources
             /\ audioBuffer' = audioBuffer
             /\ <<whatsappPc, ultravoxWs, audioSource, audioSink, currentCallId>>'
                   = <<whatsappPc, ultravoxWs, audioSource, audioSink, currentCallId>>
             /\ \A g \in Handlers : g # h => wss'[g] = wss[g]]_vars
C23_Witness ==
    \E h \in Handlers :
        /\ wss[h].opened /\ wss[h].readyState = "CLOSED" /\ wss[h].closeCalls = 0
        /\ ultravoxWs = h /\ whatsappPc = h /\ pcs[h].state = "open"
        /\ calls[h].preId # 0 /\ calls[h].fail = "none" /\ calls[h].rejectId = 0

\* C24: a text frame on the AI socket (transcript, state, unknown type or
\* unparseable) leaves the session, both legs and the accumulation buffer as
\* they were and hands nothing to the telephony leg.
C24_TextObservabilityOnly ==
    [][(nMsgs' = nMsgs + 1 /\ hist'.text # "none")
        => /\ audioBuffer' = audioBuffer
           /\ sources' = sources
           /\ <<whatsappPc, ultravoxWs, audioSource, audioSink, currentCallId>>'
                 = <<whatsappPc, ultravoxWs, audioSource, audioSink, currentCallId>>
           /\ <<pcs, wss, sinks, calls, sent>>' = <<pcs, wss, sinks, calls, sent>>]_vars

\* C25: a terminate event whose call id is not the id of the call that owns the
\* legs closes no leg of that call and leaves its buffer and the references to
\* its legs as they were.
C25_TerminateOnlyNamedCall ==
    [][(TerminateStep /\ whatsappPc # 0 /\ currentCallId' # whatsappPc)
        => /\ pcs' = pcs /\ wss' = wss /\ sinks' = sinks
           /\ audioBuffer' = audioBuffer
           /\ <<whatsappPc, ultravoxWs, audioSource, audioSink>>'
                 = <<whatsappPc, ultravoxWs, audioSource, audioSink>>]_vars

\* C26: every call-control request of the handler of call h carries the id h:
\* pre_accept and the accept that follows it carry the same id, and the reject
\* of a failed setup carries the id of its own connect event.
C26_RequestsCarryOwnCallId ==
    \A h \in Handlers :
        /\ calls[h].preId # 0 => calls[h].preId = h
        /\ calls[h].acceptId # 0 => calls[h].acceptId = calls[h].preId
        /\ calls[h].rejectId # 0 => calls[h].rejectId = h

\* C27: once the terminate event of a call has been processed, the setup of that
\* call sends no pre_accept.
C27_NoPreAcceptAfterTeardown ==
    [][\A h \in Handlers :
          (calls[h].terminated /\ calls[h].preId = 0) => calls'[h].preId = 0]_vars

\* C28: a telephony audio callback appends exactly one chunk to what was sent on
\* the socket ultravoxWs refers to when that socket is OPEN, and otherwise sends
\* nothing; in both cases it changes nothing else.
C28_TelephonyAudioOnlyWhileOpen ==
    [][tele'.calls = tele.calls + 1
        => /\ IF ultravoxWs # 0 /\ wss[ultravoxWs].readyState = "OPEN"
              THEN /\ Len(sent'[ultravoxWs]) = Len(sent[ultravoxWs]) + 1
                   /\ SubSeq(sent'[ultravoxWs], 1, Len(sent[ultravoxWs])) = sent[ultravoxWs]
                   /\ \A h \in Handlers : h # ultravoxWs => sent'[h] = sent[h]
              ELSE sent' = sent
           /\ <<whatsappPc, ultravoxWs, audioSource, audioSink, currentCallId, audioBuffer>>'
                 = <<whatsappPc, ultravoxWs, audioSource, audioSink, currentCallId, audioBuffer>>
           /\ <<pcs, wss, sinks, sources, calls>>' = <<pcs, wss, sinks, sources, calls>>]_vars
C28_Witness ==
    /\ tele.calls >= 2
    /\ tele.to = 0
    /\ \E h \in Handlers : Len(sent[h]) = 1 /\ wss[h].readyState # "OPEN"

\* C29: when the samples a message was upsampled to are what the telephony
\* callback delivers, the chunk sent to the AI socket is the message's sample
\* sequence, with the same length and the same values.
C29_RoundTrip ==
    (/\ tele.to # 0
     /\ hist.upsampled # <<>>
     /\ tele.samples = AsSamples(hist.upsampled))
    => tele.out = hist.int16In
====
